---- MODULE Spec2Model ----
(***************************************************************************)
(* Model of js/custom.js: enableClickToImage() makes every image element   *)
(* of the rendered page a navigation trigger to its own source URL.        *)
(*                                                                         *)
(* The state is one page load of the browsing context: the markup still to *)
(* be parsed, the document tree (elements in document order, each with its *)
(* tag, src attribute, cursor style and click listeners), the script's     *)
(* evaluation, and the navigation requests (assignments to window.location)*)
(* issued by the event-loop task that produced the state.                  *)
(***************************************************************************)
EXTENDS Integers, Sequences, FiniteSets, TLC

VARIABLES
    loads,             \* page loads of the browsing session, the current one included
    requested,         \* a page is requested and its markup has not arrived
    pending,           \* markup emitted by the rendering pipeline, not yet parsed
    doc,               \* the document tree: sequence of elements, document order
    scriptRuns,        \* evaluations of js/custom.js in this page load
    domContentLoaded,  \* the "content ready" lifecycle event has fired
    runs,              \* invocations of enableClickToImage() in this page load
    event,             \* target of the click the last task dispatched (0: none)
    navLog,            \* navigation requests the last task issued, in order
    thrown,            \* the last task reported an uncaught exception
    trace              \* begin and end of the handler invocations of the last task

vars == <<loads, requested, pending, doc, scriptRuns, domContentLoaded, runs, event,
          navLog, thrown, trace>>

----------------------------------------------------------------------------
(* Bounds *)

MaxElems == 2      \* elements of a page, dynamically inserted ones included
MaxRuns  == 2      \* invocations of enableClickToImage() per page load
MaxLoads == 2      \* page loads of a browsing session

----------------------------------------------------------------------------
(* Values *)

Null == "null-value"                       \* JavaScript null: attribute absent
URLs == {"/img/a.png", "/img/b.jpg"}     \* navigable URLs
BadUrl == "http://"                        \* a string no URL parser accepts
EmptySrc == ""                             \* src="": an attribute without a value
Srcs == URLs \cup {Null, BadUrl}

NoEvent == 0

\* Event targets: an element of the tree is its index e; InsideOf(e) is a node
\* another actor has appended below element e, which has no src attribute.
InsideOf(e) == 0 - e

IsInner(n) == n < 0

\* The element on which the listeners run for a click whose target is n: the
\* click on an inner node bubbles to the element it lies in.
CurrentTarget(n) == IF IsInner(n) THEN 0 - n ELSE n

\* An element as the rendering pipeline emits it.
Markup == [tag : {"img"}, src : Srcs] \cup {[tag |-> "p", src |-> Null]}

RECURSIVE SeqsUpTo(_, _)
SeqsUpTo(S, n) ==
    IF n = 0 THEN {<<>>}
    ELSE LET shorter == SeqsUpTo(S, n - 1)
         IN  shorter \cup {Append(s, x) : s \in {t \in shorter : Len(t) = n - 1}, x \in S}

Pages == SeqsUpTo(Markup, MaxElems)

NotEnhanced == "not-enhanced"

\* A node of the tree, created from markup: default cursor, no listeners.
\* Two history fields: bornAt, the number of enableClickToImage() invocations
\* that had run when the element entered the tree, and srcAtEnhance, the src
\* attribute as it was when enableClickToImage() last visited the element.
NewElement(m, ran) ==
    [tag |-> m.tag, src |-> m.src, cursor |-> "", listeners |-> <<>>,
     bornAt |-> ran, srcAtEnhance |-> NotEnhanced]

----------------------------------------------------------------------------
(* The browsing context's primitives used by js/custom.js *)

\* document.getElementsByTagName('img') copied by Array.from: the indices of
\* the image elements, in document order, as a snapshot.
RECURSIVE ImagesFrom(_, _)
ImagesFrom(d, i) ==
    IF i > Len(d) THEN <<>>
    ELSE IF d[i].tag = "img" THEN <<i>> \o ImagesFrom(d, i + 1)
    ELSE ImagesFrom(d, i + 1)

\* Variant: the enumeration starts at the second element of the tree.
getElementsFromSecond(d) == ImagesFrom(d, 2)

\* Variant: getElementsByTagName('*'), every element of the tree.
getElementsOfAnyTag(d) == [i \in 1..Len(d) |-> i]

getElementsByTagName(d) == ImagesFrom(d, 1)

\* element.getAttribute('src'): the attribute's current value, null if absent.
getAttribute(d, e) == IF IsInner(e) THEN Null ELSE d[e].src

\* The location setter converts the assigned value to a string: null becomes
\* the relative URL "null".
ToUrlString(v) == IF v = Null THEN "null" ELSE v

\* The location setter parses the string against the page's URL and throws a
\* SyntaxError when the parse fails.
UrlParses(u) == u # BadUrl

\* The function expression of lines 5-7 evaluates to a new function object in
\* every forEach iteration of every invocation. `run` and `image` identify the
\* object; `image` is also the variable the closure has in scope.
NewListener(image, run) == [run |-> run, image |-> image]

\* Variant: one function object per image, shared by all invocations.
SameCallbackPerImage(l1, l2) == l1.image = l2.image

SameCallback(l1, l2) == l1.run = l2.run /\ l1.image = l2.image

\* addEventListener('click', callback): appends the listener unless the same
\* callback object is already registered for the event type.
\* Variant: the handler is assigned (image.onclick = ...) and replaces the
\* one registered before.
addEventListenerReplacing(el, l) == [el EXCEPT !.listeners = <<l>>]

addEventListener(el, l) ==
    IF \E i \in 1..Len(el.listeners) : SameCallback(el.listeners[i], l)
    THEN el
    ELSE [el EXCEPT !.listeners = Append(@, l)]

----------------------------------------------------------------------------
(* js/custom.js *)

\* Variant: the callback also rewrites the image's src attribute.
EnhanceImageRewritingSrc(d, image, run) ==
    LET styled == [d[image] EXCEPT !.cursor = "pointer", !.src = Null,
                                   !.srcAtEnhance = getAttribute(d, image)]
    IN  [d EXCEPT ![image] = addEventListener(styled, NewListener(image, run))]

\* Variant: a flag shared by the iterations lets only the first image visited
\* in an invocation be enhanced.
EnhanceImageUnlessDone(d, image, run) ==
    IF \E i \in 1..Len(d) : \E k \in 1..Len(d[i].listeners) : d[i].listeners[k].run = run
    THEN d
    ELSE LET styled == [d[image] EXCEPT !.cursor = "pointer",
                                        !.srcAtEnhance = getAttribute(d, image)]
         IN  [d EXCEPT ![image] = addEventListener(styled, NewListener(image, run))]

\* Variant: the callback registers the handler and leaves the style alone.
EnhanceImageWithoutCursor(d, image, run) ==
    LET visited == [d[image] EXCEPT !.srcAtEnhance = getAttribute(d, image)]
    IN  [d EXCEPT ![image] = addEventListener(visited, NewListener(image, run))]

\* Variant: the callback toggles the cursor style: an image that has the
\* pointer cursor gets the default one back.
EnhanceImageTogglingCursor(d, image, run) ==
    LET styled == [d[image] EXCEPT !.cursor = IF @ = "pointer" THEN "" ELSE "pointer",
                                   !.srcAtEnhance = getAttribute(d, image)]
    IN  [d EXCEPT ![image] = addEventListener(styled, NewListener(image, run))]

\* The body of the forEach callback, lines 4-7.
EnhanceImage(d, image, run) ==
    LET styled == [d[image] EXCEPT !.cursor = "pointer",
                                   !.srcAtEnhance = getAttribute(d, image)]
    IN  [d EXCEPT ![image] = addEventListener(styled, NewListener(image, run))]

\* Variant: the loop returns after the first image.
ForEachFirstOnly(images, d, run) ==
    IF images = <<>> THEN d ELSE EnhanceImage(d, Head(images), run)

\* Array.from(images).forEach(...), line 3.
RECURSIVE ForEach(_, _, _)
ForEach(images, d, run) ==
    IF images = <<>> THEN d
    ELSE ForEach(Tail(images), EnhanceImage(d, Head(images), run), run)

\* Variant: the pointer cursor is set on every element of the document, as a
\* style rule without a selector would.
enableClickToImageStylingAll(d, run) ==
    LET after == ForEach(getElementsByTagName(d), d, run)
    IN  [i \in 1..Len(after) |-> [after[i] EXCEPT !.cursor = "pointer"]]

\* enableClickToImage(), lines 1-9: the document after the invocation.
enableClickToImage(d, run) == ForEach(getElementsByTagName(d), d, run)

\* Variant: the handler reads the loop's last image instead of the target.
HandlerLastImage(d, l, ev) ==
    LET images == getElementsByTagName(d)
    IN  ToUrlString(getAttribute(d, images[Len(images)]))

\* Variant: the handler reads the document's first image instead of the target.
HandlerFirstImage(d, l, ev) ==
    ToUrlString(getAttribute(d, getElementsByTagName(d)[1]))

\* Variant: the handler uses the src value read when it was registered.
HandlerCaptured(d, l, ev) == ToUrlString(d[ev].srcAtEnhance)

\* Variant: the handler reads the image it closed over, not the event target.
HandlerOwnImage(d, l, ev) == ToUrlString(getAttribute(d, l.image))

\* The click handler l, lines 5-7, called with an event whose target is ev:
\* the URL string it assigns to window.location.
Handler(d, l, ev) == ToUrlString(getAttribute(d, ev))

\* The assignment to window.location on top of the outcome `out` of the task
\* so far: a navigation request, or an exception when the URL does not parse.
\* Variant: the assignment is issued a second time.
SetLocationRetrying(out, u) ==
    IF UrlParses(u) THEN [out EXCEPT !.log = Append(Append(@, u), u)]
    ELSE [out EXCEPT !.thrown = TRUE]

\* Variant: the assignment is guarded by a test of the value.
SetLocationIfUsable(out, u) ==
    IF u \in {"null", ""} THEN out
    ELSE IF UrlParses(u) THEN [out EXCEPT !.log = Append(@, u)]
    ELSE [out EXCEPT !.thrown = TRUE]

SetLocation(out, u) ==
    IF UrlParses(u) THEN [out EXCEPT !.log = Append(@, u)]
    ELSE [out EXCEPT !.thrown = TRUE]

\* Variant: a handler assigns window.location only when no navigation has
\* been requested in the task.
InvokeHandlerUnlessNavigating(d, l, ev, out) ==
    LET begun == [out EXCEPT !.trace = Append(@, [op |-> "begin", run |-> l.run])]
        done  == IF out.log = <<>> THEN SetLocation(begun, Handler(d, l, ev)) ELSE begun
    IN  [done EXCEPT !.trace = Append(@, [op |-> "end", run |-> l.run])]

\* One invocation of the handler l: it begins, assigns window.location and
\* returns (or throws); the function has no await, timer or loop.
InvokeHandler(d, l, ev, out) ==
    LET begun == [out EXCEPT !.trace = Append(@, [op |-> "begin", run |-> l.run])]
        done  == SetLocation(begun, Handler(d, l, ev))
    IN  [done EXCEPT !.trace = Append(@, [op |-> "end", run |-> l.run])]

\* Variant: the handlers are asynchronous; each begins when it is called and
\* assigns window.location after all of them have begun.
RECURSIVE BeginAll(_, _)
BeginAll(ls, out) ==
    IF ls = <<>> THEN out
    ELSE BeginAll(Tail(ls),
                  [out EXCEPT !.trace = Append(@, [op |-> "begin", run |-> Head(ls).run])])

RECURSIVE FinishAll(_, _, _, _)
FinishAll(d, ls, ev, out) ==
    IF ls = <<>> THEN out
    ELSE LET done == SetLocation(out, ToUrlString(getAttribute(d, ev)))
         IN  FinishAll(d, Tail(ls), ev,
                       [done EXCEPT !.trace = Append(@, [op |-> "end", run |-> Head(ls).run])])

RunListenersDeferred(d, ls, ev, out) == FinishAll(d, ls, ev, BeginAll(ls, out))

\* Dispatch of a click event whose target is ev: the listeners registered on
\* the current target run in registration order; an exception in one listener
\* is reported and the next listener still runs.
RECURSIVE RunListeners(_, _, _, _)
RunListeners(d, ls, ev, out) ==
    IF ls = <<>> THEN out
    ELSE RunListeners(d, Tail(ls), ev, InvokeHandler(d, Head(ls), ev, out))

\* The outcome of a task before any handler has run.
NoOutcome == [log |-> <<>>, thrown |-> FALSE, trace |-> <<>>]

\* Variant: one delegated listener on the document serves every image.
DispatchDelegated(d, ev) ==
    IF d[ev].tag = "img" /\ \E i \in 1..Len(d) : d[i].listeners # <<>>
    THEN SetLocation(NoOutcome, ToUrlString(getAttribute(d, ev)))
    ELSE NoOutcome

Dispatch(d, ev) ==
    RunListeners(d, d[CurrentTarget(ev)].listeners, ev, NoOutcome)

----------------------------------------------------------------------------
(* Page load *)

\* Variant: the script tag precedes the page's markup.
ScriptTagInHead == TRUE

\* Where the page's layout places the script: after the page's markup.
ScriptTagReached == pending = <<>>

\* A task that dispatches no click: no navigation request, no exception.
NoClick == event' = NoEvent /\ navLog' = <<>> /\ thrown' = FALSE /\ trace' = <<>>

Init ==
    /\ loads = 1
    /\ requested = TRUE
    /\ pending = <<>>
    /\ doc = <<>>
    /\ scriptRuns = 0
    /\ domContentLoaded = FALSE
    /\ runs = 0
    /\ event = NoEvent
    /\ navLog = <<>>
    /\ thrown = FALSE
    /\ trace = <<>>

\* The markup of the requested page, as rendered by the site generator, arrives.
Render ==
    /\ requested
    /\ requested' = FALSE
    /\ pending' \in Pages
    /\ NoClick
    /\ UNCHANGED <<loads, doc, scriptRuns, domContentLoaded, runs>>

\* The parser inserts the next element of the markup.
Parse ==
    /\ pending # <<>>
    /\ doc' = Append(doc, NewElement(Head(pending), runs))
    /\ pending' = Tail(pending)
    /\ NoClick
    /\ UNCHANGED <<loads, requested, scriptRuns, domContentLoaded, runs>>

\* Variant: the script remembers, across page loads, that it has run, and
\* calls the function in the first page load only.
EvalScriptOncePerSession ==
    /\ ~requested
    /\ ScriptTagReached
    /\ scriptRuns = 0
    /\ scriptRuns' = 1
    /\ runs' = IF loads = 1 THEN runs + 1 ELSE runs
    /\ doc' = IF loads = 1 THEN enableClickToImage(doc, runs + 1) ELSE doc
    /\ NoClick
    /\ UNCHANGED <<loads, requested, pending, domContentLoaded>>

\* Variant: the handler is called where it should be passed: the script
\* assigns window.location while it enhances the images.
EvalScriptCallingHandler ==
    /\ ~requested
    /\ ScriptTagReached
    /\ scriptRuns = 0
    /\ scriptRuns' = 1
    /\ runs' = runs + 1
    /\ doc' = enableClickToImage(doc, runs + 1)
    /\ event' = NoEvent
    /\ navLog' = [i \in 1..Len(getElementsByTagName(doc)) |->
                     ToUrlString(getAttribute(doc, getElementsByTagName(doc)[i]))]
    /\ thrown' = FALSE
    /\ trace' = <<>>
    /\ UNCHANGED <<loads, requested, pending, domContentLoaded>>

\* Variant: the script declares the function and never calls it.
EvalScriptWithoutCall ==
    /\ ~requested
    /\ ScriptTagReached
    /\ scriptRuns = 0
    /\ scriptRuns' = 1
    /\ NoClick
    /\ UNCHANGED <<loads, requested, pending, doc, domContentLoaded, runs>>

\* Evaluation of js/custom.js: the declaration, then the call of line 11.
EvalScript ==
    /\ ~requested
    /\ ScriptTagReached
    /\ scriptRuns = 0
    /\ scriptRuns' = 1
    /\ runs' = runs + 1
    /\ doc' = enableClickToImage(doc, runs + 1)
    /\ NoClick
    /\ UNCHANGED <<loads, requested, pending, domContentLoaded>>

\* DOMContentLoaded: fired once parsing is over and the scripts have run.
ContentReady ==
    /\ pending = <<>>
    /\ scriptRuns = 1
    /\ ~domContentLoaded
    /\ domContentLoaded' = TRUE
    /\ NoClick
    /\ UNCHANGED <<loads, requested, pending, doc, scriptRuns, runs>>

\* Another caller invokes the global function enableClickToImage() again.
Reinvoke ==
    /\ scriptRuns = 1
    /\ runs < MaxRuns
    /\ runs' = runs + 1
    /\ doc' = enableClickToImage(doc, runs + 1)
    /\ NoClick
    /\ UNCHANGED <<loads, requested, pending, scriptRuns, domContentLoaded>>

\* Another actor rewrites (or removes) an image's src attribute.
SetSrc(e, s) ==
    /\ e \in 1..Len(doc)
    /\ doc[e].tag = "img"
    /\ s # doc[e].src
    /\ doc' = [doc EXCEPT ![e].src = s]
    /\ NoClick
    /\ UNCHANGED <<loads, requested, pending, scriptRuns, domContentLoaded, runs>>

\* Another actor leaves an image with an empty src attribute.
EmptySrcOf(e) ==
    /\ e \in 1..Len(doc)
    /\ doc[e].tag = "img"
    /\ doc[e].src # EmptySrc
    /\ doc' = [doc EXCEPT ![e].src = EmptySrc]
    /\ NoClick
    /\ UNCHANGED <<loads, requested, pending, scriptRuns, domContentLoaded, runs>>

\* Another actor appends an image element to the parsed document.
InsertImage(s) ==
    /\ ~requested
    /\ pending = <<>>
    /\ Len(doc) < MaxElems
    /\ doc' = Append(doc, NewElement([tag |-> "img", src |-> s], runs))
    /\ NoClick
    /\ UNCHANGED <<loads, requested, pending, scriptRuns, domContentLoaded, runs>>

\* A click event with target n is dispatched: the listeners run in one task.
DispatchClick(n) ==
    /\ event' = n
    /\ LET out == Dispatch(doc, n)
       IN  navLog' = out.log /\ thrown' = out.thrown /\ trace' = out.trace
    /\ UNCHANGED <<loads, requested, pending, doc, scriptRuns, domContentLoaded, runs>>

\* Another actor dispatches a click event on a node inside image e.
ClickInside(e) ==
    /\ e \in 1..Len(doc)
    /\ doc[e].tag = "img"
    /\ DispatchClick(InsideOf(e))

\* The user clicks element e: the click event is dispatched to its listeners.
Click(e) ==
    /\ e \in 1..Len(doc)
    /\ DispatchClick(e)

\* The page is unloaded and another page of the site is loaded.
Unload ==
    /\ ~requested
    /\ loads < MaxLoads
    /\ loads' = loads + 1
    /\ requested' = TRUE
    /\ pending' = <<>>
    /\ doc' = <<>>
    /\ scriptRuns' = 0
    /\ domContentLoaded' = FALSE
    /\ runs' = 0
    /\ event' = NoEvent
    /\ navLog' = <<>>
    /\ thrown' = FALSE
    /\ trace' = <<>>

Mutate == \E e \in 1..MaxElems, s \in Srcs : SetSrc(e, s)
Insert == \E s \in Srcs : InsertImage(s)
UserClick == \E e \in 1..MaxElems : Click(e)
InnerClick == \E e \in 1..MaxElems : ClickInside(e)
Empty == \E e \in 1..MaxElems : EmptySrcOf(e)

\* One page load, in which nothing but line 11 calls enableClickToImage().
NextLoad ==
    \/ Render
    \/ Parse
    \/ EvalScript
    \/ ContentReady
    \/ Mutate
    \/ Insert
    \/ UserClick

\* The pages as deployed, loaded one after the other.
NextPage ==
    \/ NextLoad
    \/ Unload

\* One page load with callers that invoke enableClickToImage() again.
Next ==
    \/ NextLoad
    \/ Reinvoke

\* One page load with actors that dispatch click events of their own and
\* that empty src attributes.
NextActors ==
    \/ NextLoad
    \/ InnerClick
    \/ Empty

Spec == Init /\ [][Next]_vars

SpecPage == Init /\ [][NextPage]_vars

SpecActors == Init /\ [][NextActors]_vars

----------------------------------------------------------------------------
(* Properties *)

Elems == 1..Len(doc)

IsImage(e) == doc[e].tag = "img"

\* The images that were in the tree when enableClickToImage() first ran.
EnhancedFirst == {e \in Elems : IsImage(e) /\ doc[e].bornAt = 0}

RECURSIVE HandlersFrom(_, _)
HandlersFrom(d, i) ==
    IF i > Len(d) THEN 0 ELSE Len(d[i].listeners) + HandlersFrom(d, i + 1)

TotalHandlers == HandlersFrom(doc, 1)

\* C1: after enableClickToImage() has run once, every image that was in the
\* document when it ran has exactly one click handler, no other element has
\* any, and the handlers number as many as those images.
C1_OneHandlerPerImage ==
    runs = 1 =>
        /\ \A e \in Elems :
               Len(doc[e].listeners) = IF e \in EnhancedFirst THEN 1 ELSE 0
        /\ TotalHandlers = Cardinality(EnhancedFirst)

C1_Witness ==
    /\ runs = 1
    /\ Len(doc) = 2
    /\ EnhancedFirst = {1, 2}
    /\ TotalHandlers = 2

\* C2: after a single run, a click on an enhanced image whose src attribute
\* is the URL U issues exactly one navigation request, and its target is U.
C2_ClickNavigatesToSrc ==
    \A e \in Elems :
        (event = e /\ runs = 1 /\ doc[e].listeners # <<>> /\ doc[e].src \in URLs)
            => navLog = <<doc[e].src>>

C2_Witness ==
    /\ runs = 1
    /\ Len(doc) = 2
    /\ event = 1
    /\ doc[1].src = "/img/a.png"
    /\ doc[2].src = "/img/b.jpg"
    /\ doc[2].listeners # <<>>
    /\ navLog = <<"/img/a.png">>

\* C3: the target of every navigation request of a click is the src attribute
\* as it is when the click happens; when the attribute has changed since the
\* handler was registered, the target is not the value it had then.
C3_ReadOnClick ==
    \A e \in Elems :
        (event = e /\ doc[e].listeners # <<>> /\ doc[e].src \in URLs) =>
            /\ navLog # <<>>
            /\ \A i \in 1..Len(navLog) :
                   /\ navLog[i] = doc[e].src
                   /\ doc[e].srcAtEnhance # doc[e].src
                          => navLog[i] # doc[e].srcAtEnhance

C3_Witness ==
    /\ event \in Elems
    /\ doc[event].srcAtEnhance = "/img/a.png"
    /\ doc[event].src = "/img/b.jpg"
    /\ navLog = <<"/img/b.jpg">>

\* C4: a click on one image issues no navigation request whose target is the
\* src attribute of another image of the document (with a different src).
C4_NoCrossNavigation ==
    \A e \in Elems, f \in Elems :
        (event = e /\ f # e /\ IsImage(f) /\ doc[f].src # doc[e].src) =>
            \A i \in 1..Len(navLog) :
                navLog[i] # doc[f].src /\ (doc[f].src = Null => navLog[i] # "null")

C4_Witness ==
    /\ Len(doc) = 2
    /\ event = 2
    /\ doc[1].listeners # <<>>
    /\ doc[2].listeners # <<>>
    /\ doc[1].src \in URLs
    /\ doc[2].src \in URLs
    /\ doc[1].src # doc[2].src
    /\ navLog # <<>>

\* C5: after two invocations every image that was in the document for both
\* has two distinct click handlers, and a click on it fires both: two
\* navigation requests.
C5_TwiceGivesTwoHandlers ==
    runs = 2 =>
        \A e \in EnhancedFirst :
            /\ Len(doc[e].listeners) = 2
            /\ doc[e].listeners[1] # doc[e].listeners[2]
            /\ (event = e /\ doc[e].src # BadUrl) => Len(navLog) = 2
            /\ (event = e /\ doc[e].src \in URLs) => navLog = <<doc[e].src, doc[e].src>>

C5_Witness ==
    /\ runs = 2
    /\ event \in EnhancedFirst
    /\ Len(navLog) = 2

\* C6: an invocation of enableClickToImage() on a document without images
\* changes nothing in the document, issues no navigation request and raises
\* no exception.
C6_NoImagesNoOp ==
    [][((EvalScript \/ Reinvoke) /\ \A e \in Elems : ~IsImage(e))
          => (doc' = doc /\ navLog' = <<>> /\ thrown' = FALSE)]_vars

C6_Witness ==
    /\ runs >= 1
    /\ Len(doc) >= 1
    /\ \A e \in Elems : ~IsImage(e) /\ doc[e].listeners = <<>>
    /\ navLog = <<>>
    /\ ~thrown

\* C7: an image inserted after enableClickToImage() has run, as long as the
\* function has not run again, has no click handler, and a click on it
\* issues no navigation request.
C7_LateImagesNotEnhanced ==
    \A e \in Elems :
        (IsImage(e) /\ runs >= 1 /\ doc[e].bornAt = runs) =>
            /\ doc[e].listeners = <<>>
            /\ event = e => navLog = <<>>

C7_Witness ==
    /\ Len(doc) = 2
    /\ doc[1].listeners # <<>>
    /\ IsImage(2)
    /\ doc[2].bornAt = 1
    /\ runs = 1
    /\ event = 2
    /\ navLog = <<>>

\* C8: no invocation of enableClickToImage() and no click dispatch changes
\* the src attribute of any element.
C8_SrcNeverWritten ==
    [][(EvalScript \/ Reinvoke \/ UserClick)
          => (Len(doc') = Len(doc) /\ \A e \in Elems : doc'[e].src = doc[e].src)]_vars

C8_Witness ==
    /\ runs = 2
    /\ event \in Elems
    /\ navLog # <<>>
    /\ doc[event].src = "/img/b.jpg"
    /\ doc[event].srcAtEnhance = "/img/b.jpg"

\* C9 as stated: enableClickToImage() is invoked exactly once per page load,
\* by the content-ready event: it has not run before the event has fired.
C9_InvokedByContentReady ==
    runs = 0 \/ (runs = 1 /\ domContentLoaded)

\* C9 as amended: enableClickToImage() is invoked once per page load, by the
\* call at the end of the script, when the script is evaluated; when the
\* content-ready event fires it has already run.
C9_InvokedOnceByScript ==
    /\ runs = scriptRuns
    /\ runs <= 1
    /\ domContentLoaded => runs = 1

C9_Witness ==
    /\ scriptRuns = 1
    /\ runs = 1
    /\ ~domContentLoaded
    /\ \E e \in Elems : doc[e].listeners # <<>>

IsPrefix(s, t) == Len(s) <= Len(t) /\ \A i \in 1..Len(s) : s[i] = t[i]

\* C11: an element that has a click handler keeps it: no step of a page load
\* removes the element or any of its handlers, so enhanced is terminal.
C11_EnhancedIsTerminal ==
    [][\A e \in Elems :
          doc[e].listeners # <<>>
              => (e <= Len(doc') /\ IsPrefix(doc[e].listeners, doc'[e].listeners))]_vars

C11_Witness ==
    /\ runs = 2
    /\ event \in Elems
    /\ Len(doc[event].listeners) = 2
    /\ Len(trace) = 4

\* C12: a click on an enhanced image whose src attribute is missing or empty
\* still runs every handler, each issues a navigation request (target "null"
\* for a missing attribute, "" for an empty one) and none raises an exception.
C12_NoValidation ==
    \A e \in Elems :
        (event = e /\ doc[e].listeners # <<>> /\ doc[e].src \in {Null, EmptySrc}) =>
            /\ Len(navLog) = Len(doc[e].listeners)
            /\ \A i \in 1..Len(navLog) :
                   navLog[i] = IF doc[e].src = Null THEN "null" ELSE ""
            /\ ~thrown

C12_Witness ==
    /\ event \in Elems
    /\ doc[event].src = EmptySrc
    /\ doc[event].srcAtEnhance = Null
    /\ navLog = <<"">>
    /\ ~thrown

\* The document as it would be had no cursor style been set.
WithoutCursor(d) == [i \in 1..Len(d) |-> [d[i] EXCEPT !.cursor = ""]]

\* C13 as stated: a flag showPointerCursor governs the cursor: whatever its
\* value, an enhanced image has the pointer cursor exactly when it is true.
C13_CursorGovernedByFlag ==
    \A showPointerCursor \in BOOLEAN :
        \A e \in Elems :
            doc[e].listeners # <<>> => (doc[e].cursor = "pointer" <=> showPointerCursor)

\* C13 as amended: there is no flag; every enhanced image has the pointer
\* cursor, and what a click issues does not depend on the cursor style.
C13_CursorAlwaysSet ==
    \A e \in Elems :
        /\ doc[e].listeners # <<>> => doc[e].cursor = "pointer"
        /\ Dispatch(WithoutCursor(doc), e) = Dispatch(doc, e)

C13_Witness ==
    /\ Len(doc) = 2
    /\ \A e \in Elems : doc[e].listeners # <<>> /\ doc[e].cursor = "pointer"
    /\ event = 1
    /\ navLog = <<"/img/b.jpg">>

\* C14: the handler invocations of a task do not overlap: each handler that
\* begins ends before the next one begins, also when one click fires several.
C14_HandlersSerial ==
    /\ Len(trace) % 2 = 0
    /\ \A i \in 1..Len(trace) :
           IF i % 2 = 1
           THEN trace[i].op = "begin"
           ELSE trace[i].op = "end" /\ trace[i].run = trace[i - 1].run
    /\ event \in Elems => Len(trace) = 2 * Len(doc[event].listeners)

C14_Witness ==
    /\ event \in Elems
    /\ Len(trace) = 4
    /\ trace[1].run = 1
    /\ trace[3].run = 2
    /\ thrown

\* The listeners that ran for the last click.
Fired == IF event = NoEvent THEN <<>> ELSE doc[CurrentTarget(event)].listeners

\* C15 as stated: whatever the target of the click event, the handlers of
\* element e navigate to the src attribute of e.
C15_HandlerReadsOwnElement ==
    (event # NoEvent /\ Fired # <<>> /\ doc[CurrentTarget(event)].src \in URLs) =>
        navLog = [i \in 1..Len(Fired) |-> doc[CurrentTarget(event)].src]

\* C15 as amended: the handlers of element e navigate to the src attribute of
\* the event's target: that of e for a click on e itself, and "null" for a
\* click on a node inside e, which has no src attribute.
C15_HandlerReadsEventTarget ==
    (event # NoEvent /\ Fired # <<>>) =>
        /\ (event \in Elems /\ doc[event].src \in URLs)
               => navLog = [i \in 1..Len(Fired) |-> doc[event].src]
        /\ IsInner(event) => navLog = [i \in 1..Len(Fired) |-> "null"]

C15_Witness ==
    /\ IsInner(event)
    /\ doc[CurrentTarget(event)].src = "/img/a.png"
    /\ Len(Fired) = 1
    /\ navLog = <<"null">>

\* The orders in which the images of s can be enumerated.
Orders(s) ==
    {p \in [1..Len(s) -> {s[i] : i \in 1..Len(s)}] :
        \A i \in 1..Len(s), j \in 1..Len(s) : i # j => p[i] # p[j]}

\* C16: in whatever order an invocation enumerates the images, the document
\* it leaves, and so what every later click issues, is the same.
C16_OrderInsensitive ==
    LET inOrder == enableClickToImage(doc, runs + 1)
    IN  \A p \in Orders(getElementsByTagName(doc)) :
            LET permuted == ForEach(p, doc, runs + 1)
            IN  /\ permuted = inOrder
                /\ \A e \in Elems : Dispatch(permuted, e) = Dispatch(inOrder, e)

C16_Witness ==
    /\ runs = 1
    /\ domContentLoaded
    /\ Len(getElementsByTagName(doc)) = 2
    /\ doc[1].src = "/img/b.jpg"
    /\ doc[2].src = "/img/a.png"
    /\ \A e \in Elems : Len(doc[e].listeners) = 1

Begun == {i \in 1..Len(trace) : trace[i].op = "begin"}
Ended == {i \in 1..Len(trace) : trace[i].op = "end"}

\* C17: an invocation passes over each image once (no image has two handlers
\* of the same invocation), every handler invocation that began has ended, and
\* a handler issues its navigation request once: no retry, no second request.
C17_SinglePassNoRetry ==
    /\ \A e \in Elems :
           /\ Len(doc[e].listeners) <= runs
           /\ \A i \in 1..Len(doc[e].listeners), j \in 1..Len(doc[e].listeners) :
                  i < j => doc[e].listeners[i].run < doc[e].listeners[j].run
    /\ Cardinality(Begun) = Cardinality(Ended)
    /\ Len(navLog) <= Cardinality(Begun)
    /\ ~thrown => Len(navLog) = Cardinality(Ended)

C17_Witness ==
    /\ event \in Elems
    /\ Cardinality(Ended) = 2
    /\ navLog = <<"null", "null">>

\* C18: nothing of an earlier page load is left when the next page is
\* requested, and in every page load the handlers and the navigation targets
\* follow from that load's document and invocation alone.
C18_LoadsIndependent ==
    /\ requested =>
           /\ pending = <<>> /\ doc = <<>>
           /\ scriptRuns = 0 /\ runs = 0 /\ ~domContentLoaded
           /\ event = NoEvent /\ navLog = <<>> /\ ~thrown /\ trace = <<>>
    /\ runs = scriptRuns
    /\ \A e \in Elems :
           /\ Len(doc[e].listeners) = IF IsImage(e) THEN runs - doc[e].bornAt ELSE 0
           /\ \A i \in 1..Len(doc[e].listeners) :
                  doc[e].listeners[i] = NewListener(e, doc[e].bornAt + i)
           /\ (event = e /\ doc[e].src \in URLs)
                  => navLog = [i \in 1..Len(doc[e].listeners) |-> doc[e].src]

C18_Witness ==
    /\ loads = 2
    /\ runs = 1
    /\ event \in Elems
    /\ navLog = <<"/img/a.png">>

\* C19: an image has as many click handlers as invocations have run since it
\* entered the document, and a click on it issues as many navigation requests
\* (its src being missing or a URL the location setter accepts).
C19_HandlersCountInvocations ==
    \A e \in Elems :
        IsImage(e) =>
            /\ Len(doc[e].listeners) = runs - doc[e].bornAt
            /\ (event = e /\ doc[e].src # BadUrl) => Len(navLog) = runs - doc[e].bornAt

C19_Witness ==
    /\ runs = 2
    /\ Len(doc) = 2
    /\ Len(doc[1].listeners) = 2
    /\ doc[2].bornAt = 1
    /\ event = 2
    /\ Len(navLog) = 1

\* C20: a navigation request is issued only by a task that dispatches a click
\* on an image that was in the document during some invocation: none by an
\* invocation itself, by a click on another element or on an image never
\* enhanced.
C20_NavigationOnlyByClick ==
    navLog # <<>> =>
        /\ event \in Elems
        /\ IsImage(event)
        /\ doc[event].bornAt < runs

C20_Witness ==
    /\ runs >= 1
    /\ event \in Elems
    /\ ~IsImage(event)
    /\ \E e \in Elems : doc[e].listeners # <<>>
    /\ navLog = <<>>

\* What an invocation of enableClickToImage() may change in an element: its
\* click listeners and its cursor style (and the record of that visit).
SaveForEnhancement(old, new) ==
    [new EXCEPT !.listeners = old.listeners, !.cursor = old.cursor,
                !.srcAtEnhance = old.srcAtEnhance] = old

\* C21: an invocation of enableClickToImage() adds, removes and reorders no
\* element; it leaves every element that is not an image as it was (no
\* listener, no attribute, no style changed), and in an image it changes
\* nothing but the click listeners and the cursor style; the rest of the page
\* load's state is untouched and no navigation request is issued.
C21_OnlyHandlersAndCursor ==
    [][(EvalScript \/ Reinvoke) =>
          /\ Len(doc') = Len(doc)
          /\ \A e \in Elems :
                 /\ doc'[e].tag = doc[e].tag
                 /\ ~IsImage(e) => doc'[e] = doc[e]
                 /\ IsImage(e) =>
                        /\ SaveForEnhancement(doc[e], doc'[e])
                        /\ IsPrefix(doc[e].listeners, doc'[e].listeners)
                        /\ Len(doc'[e].listeners) = Len(doc[e].listeners) + 1
                        /\ doc'[e].cursor = "pointer"
          /\ UNCHANGED <<requested, pending, domContentLoaded>>
          /\ navLog' = <<>>]_vars

C21_Witness ==
    /\ runs = 2
    /\ Len(doc) = 2
    /\ ~IsImage(1)
    /\ doc[1].listeners = <<>> /\ doc[1].cursor = ""
    /\ IsImage(2)
    /\ Len(doc[2].listeners) = 2
    /\ doc[2].src = "/img/a.png"

\* C22: a click on an element with k > 1 handlers issues k navigation requests
\* (its src being missing or a URL the location setter accepts), and every
\* request of the click has the same target: the src attribute of the element
\* as it is at that click, whatever it was when the handlers were registered.
C22_DuplicatesSameTarget ==
    \A e \in Elems :
        (event = e /\ Len(doc[e].listeners) > 1) =>
            /\ \A i \in 1..Len(navLog) : navLog[i] = ToUrlString(doc[e].src)
            /\ doc[e].src # BadUrl => Len(navLog) = Len(doc[e].listeners)
            /\ Len(doc[e].listeners) = runs - doc[e].bornAt

C22_Witness ==
    /\ event \in Elems
    /\ Len(doc[event].listeners) = 2
    /\ doc[event].srcAtEnhance = "/img/a.png"
    /\ doc[event].src = "/img/b.jpg"
    /\ navLog = <<"/img/b.jpg", "/img/b.jpg">>

\* The images that were in the tree d during one of the first `ran` invocations.
Visited(d, ran) == {e \in 1..Len(d) : d[e].tag = "img" /\ d[e].bornAt < ran}

\* C23: once enableClickToImage() has run, every image that was in the document
\* during an invocation has the cursor style "pointer"; another invocation
\* leaves the cursor of such an image as it is while it adds a handler to it;
\* and the dispatch of a click changes the cursor of no element.
C23_CursorIdempotent ==
    [][/\ \A e \in Visited(doc', runs') : doc'[e].cursor = "pointer"
       /\ Reinvoke =>
              \A e \in Visited(doc, runs) :
                  /\ doc'[e].cursor = doc[e].cursor
                  /\ Len(doc'[e].listeners) = Len(doc[e].listeners) + 1
       /\ UserClick =>
              /\ Len(doc') = Len(doc)
              /\ \A e \in Elems : doc'[e].cursor = doc[e].cursor]_vars

C23_Witness ==
    /\ runs = 2
    /\ Len(doc) = 2
    /\ Visited(doc, 1) = {1}
    /\ Visited(doc, 2) = {1, 2}
    /\ doc[1].cursor = "pointer" /\ doc[2].cursor = "pointer"
    /\ Len(doc[1].listeners) = 2
    /\ event = 1
    /\ navLog # <<>>

====
